---- MODULE Spec2Model ----
(***************************************************************************)
(* Host program of the supercapacitor measurement system                   *)
(* (src/Host/FinalHost.py): the serial reader thread, the bounded queue,   *)
(* the animation-timer consumer (on_timer), the data logger, the           *)
(* set-current command path with the auto flip, main's shutdown, and the   *)
(* command path (send_set_current, send_cmd) as concurrent threads run it. *)
(*                                                                         *)
(* Units.  Times are integer milliseconds of time.perf_counter().          *)
(* Currents are integer thousandths of an ampere.  Raw counts (mA, mV) are *)
(* the integers of the wire line.  A byte is a one-character string.       *)
(***************************************************************************)
EXTENDS Integers, Sequences, FiniteSets, TLC

VARIABLES
    now,                 \* time.perf_counter(), ms
    nticks,              \* clock advances still to come
    \* ---- serial_reader thread
    rpc,                 \* position of the reader thread
    buf,                 \* its byte accumulator
    t0,                  \* its time origin: None until the first match, then <<t>>
    rcur,                \* the item it is putting on the queue
    ser_open,            \* the transport is open (main closes it at shutdown)
    nreads,              \* non-empty reads the transport will still deliver
    nrecv,               \* (history) how many bytes ser.read has returned so far
    \* ---- shared
    q,                   \* queue.Queue(maxsize)
    stop_evt,            \* threading.Event
    \* ---- GUI thread: on_timer, widgets, main
    cpc,                 \* position inside on_timer
    item,                \* the sample on_timer is processing
    closed,              \* the figure was closed (plt.close or the user)
    mpc,                 \* position of main around plt.show()
    set_i,               \* current set-point
    last_flip_time,
    slider_event_enabled,
    sI_val,              \* value shown by the current slider
    tb_text,             \* text shown by the "Go to (A)" box
    tx,                  \* command frames written to the transport, in order
    wire,                \* the pieces of those frames as ser.write sent them
    tx_lock,             \* threading.Lock: 0 when free, else the thread holding it
    thr,                 \* the threads calling send_set_current / send_cmd
    ncmds,               \* manual GUI events the user will still make
    \* ---- DataLogger
    logging_enabled,
    csv_file,            \* "none" | "open" | "closed"
    csv_writer,          \* a writer exists (is not None)
    last_log_time,
    rows,                \* data rows appended to the CSV file, in order
    closes,              \* calls of data_logger.close()
    \* ---- history (not program state)
    pushed,              \* every item the reader put on the queue, in order
    processed,           \* every sample on_timer took and processed, in order
    flipTimes,           \* clock times of the auto flips, in order
    flipIdx,             \* for each auto flip, the number of the sample that fired it
    flipsSince,          \* auto flips since the last manual command to a positive current
    rowIdx,              \* for each row, the number of the sample it was written for
    logcalls,            \* clock times of the log_data calls made directly (LogCall)
    wfails,              \* failed row writes
    opens,               \* calls of open() on the log file
    open_res             \* how opening the log file went at construction

vars == << now, nticks, rpc, buf, t0, rcur, ser_open, nreads, nrecv, q, stop_evt,
           cpc, item, closed, mpc, set_i, last_flip_time, slider_event_enabled,
           sI_val, tb_text, tx, wire, tx_lock, thr, ncmds, logging_enabled,
           csv_file, csv_writer, last_log_time, rows, closes, pushed, processed,
           flipTimes, flipIdx, flipsSince, rowIdx, logcalls, wfails, opens,
           open_res >>

readerVars == << rpc, buf, t0, rcur, nreads, nrecv >>
ctlVars    == << set_i, last_flip_time, slider_event_enabled, sI_val, tb_text, tx,
                 wire >>
thrVars    == << tx_lock, thr >>
logVars    == << logging_enabled, csv_file, csv_writer, last_log_time, rows,
                 closes, rowIdx, wfails, opens, open_res >>

\* Python's None (the queue's termination marker too): the empty tuple, so that
\* it compares with the tuples it stands in place of
None == << >>

(***************************************************************************)
(* Bounds of the model.                                                    *)
(***************************************************************************)
QCap     == 3            \* queue.Queue(maxsize=...) as checked; the program uses 20000
MaxReads == 3            \* Spec: non-empty reads the transport delivers
MaxTicks == 1            \* Spec: clock advances
CtlReads == 1            \* SpecCtl: non-empty reads
CtlTicks == 1            \* SpecCtl: clock advances
CtlCmds  == 1            \* SpecCtl: manual GUI events
SeqReads == 2            \* SpecSeq: non-empty reads
SeqTicks == 2            \* SpecSeq: clock advances
SeqCmds  == 2            \* SpecSeq: manual GUI events
FailReads == 2           \* SpecFail: non-empty reads
FailTicks == 2           \* SpecFail: clock advances
FailCmds  == 1           \* SpecFail: manual GUI events
LogTicks == 4            \* SpecLog: clock advances
LogCalls == 5            \* SpecLog: direct log_data calls
FrameReads == 8          \* SpecFrame: non-empty reads
FrameTicks == 1          \* SpecFrame: clock advances
NThr     == 2            \* SpecTx: threads calling the command path at once
TxCmds   == 3            \* SpecTx: calls they make in all
SetCmds  == 2            \* SpecSet: calls of send_set_current, one after another

(***************************************************************************)
(* Program constants.                                                      *)
(***************************************************************************)
LOG_INTERVAL     == 100          \* 0.1 s
V_FLIP_THRESH    == 4900         \* 4.9 V, in mV
FLIP_COOLDOWN    == 1000         \* 1.0 s
ENABLE_LOGGING   == TRUE
AUTO_FLIP_ENABLE == TRUE
I_MIN            == -1000        \* -1.0 A
I_MAX            == 1000         \* +1.0 A

(***************************************************************************)
(* Bytes and text.                                                         *)
(***************************************************************************)
LF == "\n"
CR == "\r"
Digits == {"0", "1", "2", "3", "4", "5", "6", "7", "8", "9"}
Space  == {" ", "\t", LF, CR}            \* what strip() and \s remove

DigitVal(c) ==
    CASE c = "0" -> 0 [] c = "1" -> 1 [] c = "2" -> 2 [] c = "3" -> 3
      [] c = "4" -> 4 [] c = "5" -> 5 [] c = "6" -> 6 [] c = "7" -> 7
      [] c = "8" -> 8 [] c = "9" -> 9

HasNewline(b) == \E k \in 1..Len(b) : b[k] = LF

FirstNewline(b) == CHOOSE k \in 1..Len(b) : b[k] = LF /\ \A j \in 1..(k-1) : b[j] # LF

\* bytes.split(b'\n', 1): <<raw, rest>>
SplitLine(b) ==
    LET k == FirstNewline(b)
    IN  << SubSeq(b, 1, k-1), SubSeq(b, k+1, Len(b)) >>

RECURSIVE LStrip(_)
LStrip(s) == IF s # <<>> /\ Head(s) \in Space THEN LStrip(Tail(s)) ELSE s

RECURSIVE RStrip(_)
RStrip(s) ==
    IF s # <<>> /\ s[Len(s)] \in Space THEN RStrip(SubSeq(s, 1, Len(s)-1)) ELSE s

Strip(s) == RStrip(LStrip(s))

RECURSIVE RStripCR(_)
RStripCR(s) ==
    IF s # <<>> /\ s[Len(s)] = CR THEN RStripCR(SubSeq(s, 1, Len(s)-1)) ELSE s

\* raw.strip().decode(errors="ignore").rstrip('\r'); the bytes modelled are ASCII
CleanLine(raw) == RStripCR(Strip(raw))

\* -?\d+
IsIntText(s) ==
    LET d == IF s # <<>> /\ Head(s) = "-" THEN Tail(s) ELSE s
    IN  d # <<>> /\ \A k \in 1..Len(d) : d[k] \in Digits

RECURSIVE NatVal(_)
NatVal(d) == IF d = <<>> THEN 0 ELSE 10 * NatVal(SubSeq(d, 1, Len(d)-1)) + DigitVal(d[Len(d)])

\* int(text)
IntVal(s) == IF Head(s) = "-" THEN 0 - NatVal(Tail(s)) ELSE NatVal(s)

Commas(s) == { k \in 1..Len(s) : s[k] = "," }

\* LINE_RE.match(s): ^\s*(-?\d+)\s*,\s*(-?\d+)\s*$ ; None when there is no match,
\* otherwise <<int(group 1), int(group 2)>>
ParseLine(s) ==
    IF Cardinality(Commas(s)) # 1 THEN None
    ELSE LET k == CHOOSE c \in Commas(s) : TRUE
             a == Strip(SubSeq(s, 1, k-1))
             b == Strip(SubSeq(s, k+1, Len(s)))
         IN  IF IsIntText(a) /\ IsIntText(b) THEN << IntVal(a), IntVal(b) >> ELSE None

(***************************************************************************)
(* The chunks ser.read(256) returns in the model.                          *)
(***************************************************************************)
ChunkHigh  == << "1", ",", "3", "3", "0", "0", LF >>          \* 5.0 V
ChunkTwo   == << "2", ",", "1", "0", CR, LF, "7", ",", "3", "2", "3", "4", LF >>
ChunkHead  == << " ", "-", "4", ",", "3", "2" >>              \* a line cut in two
ChunkTail  == << "3", "3", " ", CR, LF >>
ChunkBad   == << "x", ",", "1", LF >>
ChunkAt    == << "7", ",", "3", "2", "3", "4", LF >>          \* 4.9 V exactly
ChunkBelow == << "5", ",", "3", "2", "3", "3", LF >>          \* just below 4.9 V
Chunks     == { ChunkHigh, ChunkTwo, ChunkHead, ChunkTail, ChunkBad }

\* A byte stream of the instrument, for the transport to cut where it likes:
\* a line that does not match, a line with blanks and CR LF, an empty line, a
\* plain line, and the start of a line that never ends
LineStream ==
    << "x", ",", "1", LF >> \o ChunkHead \o ChunkTail \o << LF >> \o ChunkAt \o
    << "1", "," >>

(***************************************************************************)
(* Backend scaling.  An ADC voltage is the raw count taken as millivolts.  *)
(***************************************************************************)
v_adc_from_mA(mA) == mA
v_adc_from_mV(mV) == mV

\* Vadc * (5.0 / 3.3), exactly, in units of 1/33 mV
scale_voltage(Vadc) == Vadc * 50

\* (Vadc / 3.0) * 2.0 - 1.0, exactly, in units of 1/3 uA
scale_current(Vadc) == 2000 * Vadc - 3000000

\* mutant: V > V_FLIP_THRESH
AtThreshold_Strict(V) == V > V_FLIP_THRESH * 33

\* V >= V_FLIP_THRESH for V in 1/33 mV (the floating-point comparison agrees
\* with the exact one for every raw count from -5000 to 6000)
AtThreshold(V) == V >= V_FLIP_THRESH * 33

\* floor(n/d + 1/2) for d > 0
RoundDiv(n, d) == (2 * n + d) \div (2 * d)

\* f"{I:.6f}" and f"{V:.6f}" as integer micro-units (neither has a rounding tie)
Fmt6Current(I) == RoundDiv(I, 3)
Fmt6Voltage(V) == RoundDiv(V * 1000, 33)

(***************************************************************************)
(* Command path.                                                           *)
(***************************************************************************)
\* mutant: no clamping
Clamp_None(i) == i

\* max(-1.0, min(1.0, float(i)))
Clamp(i) == IF i > I_MAX THEN I_MAX ELSE IF i < I_MIN THEN I_MIN ELSE i

\* mutant: the +1.0 offset left out
current_to_vdac_NoOffset(i_set) == Clamp(i_set) * 165

\* (i + 1.0) * 0.5 * 3.3, exactly, in units of 10 uV
current_to_vdac(i_set) == (Clamp(i_set) + 1000) * 165

\* The set-points whose DAC voltage lies exactly half way between two
\* millivolts and which the binary floating-point value makes f"{v:.3f}"
\* round up; the other half-way values round down.
VdacTieUp == { -990, -970, -950, -850, -830, -730, -710, -690, -570, -430,
               -410, -350, -190, -90, 30, 70, 110, 230, 330, 350, 550, 790,
               870, 890 }

\* f"{v:.3f}" of v = current_to_vdac(i), as integer millivolts
FmtVdac(i) ==
    LET n == current_to_vdac(i)
        w == n \div 100
        r == n % 100
    IN  IF r > 50 \/ (r = 50 /\ Clamp(i) \in VdacTieUp) THEN w + 1 ELSE w

SetFrame(i) == << "SET", FmtVdac(i) >>       \* f"SET {v:.3f}\r\n"
GetFrame    == << "GET" >>                   \* "GET\r\n"

\* cmd.encode(): the pieces ser.write sends for one frame, in order
Bytes(frame) ==
    IF frame[1] = "SET" THEN << "SET ", ToString(frame[2]), "\r\n" >>
                        ELSE << "GET", "\r\n" >>

RECURSIVE Wire(_)
Wire(frames) == IF frames = << >> THEN << >> ELSE Bytes(Head(frames)) \o Wire(Tail(frames))

\* send_cmd: one frame written under tx_lock
send_cmd(out, frame) == Append(out, frame)

\* mutant: send_cmd writes without taking the lock
LockFree_Always(l) == TRUE

\* tx_lock as `with tx_lock:` sees it: entered only while no thread holds it
LockFree(l) == l = 0

\* The threads that may call send_set_current and send_cmd at the same time,
\* and what one of them holds: its position, the value it asked for (<<i>>;
\* None for GET), the frame it formatted, the pieces of it already written and
\* the value its call returned (<<i>>).
Thr == 1..NThr
ThrIdle == [ pc |-> "idle", req |-> None, frame |-> None, k |-> 0, ret |-> None ]

\* Texts of the "Go to (A)" box: <<"fmt3", i>> is f"{i:.3f}"; <<"typed", i>> is a
\* numeric text typed in another form (such as 0.8 or 2.5); <<"bad">> is not a number.
Fmt3(i) == << "fmt3", i >>
IsNumber(text) == text[1] # "bad"
FloatOf(text)  == text[2]

\* TextBox.set_val(text): nothing when the box already shows text; otherwise the
\* box takes the text and its submit observers (on_tb) run with it.
TbSetValSubmits(shown, text) == shown # text

\* The frames one apply_set_current(i_new) writes while the box shows `shown`:
\* its own SET, and the SET of the on_tb call that tb.set_val(...) re-enters
\* when the text changes (that inner call finds the text already in place).
ApplyFrames(i_new, shown) ==
    LET a == Clamp(i_new)
    IN  << SetFrame(a) >> \o
        ( IF TbSetValSubmits(shown, Fmt3(a))
            THEN << SetFrame(Clamp(FloatOf(Fmt3(a)))) >>
            ELSE << >> )

\* apply_set_current(i_new), called while the text box shows `shown`
apply_set_current(i_new, shown) ==
    /\ set_i' = Clamp(i_new)                         \* send_set_current
    /\ tx' = tx \o ApplyFrames(i_new, shown)
    /\ wire' = wire \o Wire(ApplyFrames(i_new, shown))
    /\ slider_event_enabled' = TRUE                  \* False only around sI.set_val
    /\ sI_val' = Clamp(i_new)
    /\ tb_text' = Fmt3(Clamp(i_new))

(***************************************************************************)
(* DataLogger.                                                             *)
(***************************************************************************)
\* the formatted fields of one CSV data row (the wall-clock column is left out)
Row(t, I, V, cs, mA, mV) == << t, Fmt6Current(I), Fmt6Voltage(V), cs, mA, mV >>

\* the rate limiter's test: true when the sample is to be dropped
TooSoon(current_time) == current_time - last_log_time < LOG_INTERVAL

\* the writerow/flush of this call raises: wok tells whether the file takes the
\* row; a closed file never does
WriteRaises(wok) ==
    /\ logging_enabled /\ csv_writer /\ ~TooSoon(now)
    /\ ~(wok /\ csv_file = "open")

\* log_data(...); wok: the row write and flush succeed
log_data(t, I, V, cs, mA, mV, wok) ==
    /\ UNCHANGED << logging_enabled, csv_file, csv_writer, closes, opens, open_res >>
    /\ IF ~logging_enabled \/ ~csv_writer
         THEN UNCHANGED << last_log_time, rows, rowIdx, wfails >>
         ELSE IF TooSoon(now)
         THEN UNCHANGED << last_log_time, rows, rowIdx, wfails >>
         ELSE /\ last_log_time' = now
              /\ IF ~WriteRaises(wok)
                   THEN /\ rows' = Append(rows, Row(t, I, V, cs, mA, mV))
                        /\ rowIdx' = Append(rowIdx, Len(processed))
                        /\ wfails' = wfails
                   ELSE /\ rows' = rows                  \* except: reported only
                        /\ rowIdx' = rowIdx
                        /\ wfails' = wfails + 1

(***************************************************************************)
(* Initial state: DataLogger() constructed (its file opened, or not), the   *)
(* serial port open, the reader thread started, the figure shown.           *)
(***************************************************************************)
OpenResults == { "ok", "openfail", "headerfail" }

\* mutant: _open_file's except clause leaves logging_enabled alone
LoggerInit_KeepEnabled(res) ==
    /\ logging_enabled = ENABLE_LOGGING
    /\ csv_file = IF res = "openfail" THEN "none" ELSE "open"
    /\ csv_writer = (res # "openfail")
    /\ last_log_time = 0
    /\ rows = << >> /\ rowIdx = << >>
    /\ closes = 0
    /\ opens = 1
    /\ open_res = res

\* DataLogger.__init__ and _open_file; res is how opening the file went
LoggerInit(res) ==
    /\ logging_enabled = (ENABLE_LOGGING /\ res = "ok")
    /\ csv_file = IF res = "openfail" THEN "none" ELSE "open"
    /\ csv_writer = (res # "openfail")
    /\ last_log_time = 0
    /\ rows = << >> /\ rowIdx = << >>
    /\ closes = 0
    /\ opens = 1
    /\ open_res = res

\* ticks, reads, cmds: what the environment will still do
InitWith(ticks, reads, cmds, results) ==
    /\ now = 0 /\ nticks = ticks
    /\ rpc = "loop" /\ buf = << >> /\ t0 = None /\ rcur = None
    /\ ser_open = TRUE /\ nreads = reads /\ nrecv = 0
    /\ q = << >> /\ stop_evt = FALSE
    /\ cpc = "idle" /\ item = None /\ closed = FALSE /\ mpc = "show"
    /\ set_i = 0 /\ last_flip_time = 0
    /\ slider_event_enabled = TRUE /\ sI_val = 0 /\ tb_text = Fmt3(0)
    /\ tx = << >> /\ wire = << >> /\ ncmds = cmds
    /\ tx_lock = 0 /\ thr = [ t \in Thr |-> ThrIdle ]
    /\ \E res \in results : LoggerInit(res)
    /\ pushed = << >> /\ processed = << >> /\ flipTimes = << >>
    /\ flipIdx = << >> /\ flipsSince = 0
    /\ logcalls = << >> /\ wfails = 0

(***************************************************************************)
(* The clock.                                                              *)
(***************************************************************************)
Tick(d) ==
    /\ nticks > 0
    /\ now' = now + d
    /\ nticks' = nticks - 1
    /\ UNCHANGED << readerVars, ser_open, q, stop_evt, cpc, item, closed, mpc,
                    ctlVars, ncmds, logVars, pushed, processed, flipTimes,
                    flipIdx, flipsSince, logcalls, thrVars >>

(***************************************************************************)
(* serial_reader.                                                          *)
(***************************************************************************)
\* mutant: an unbounded queue, whose put never blocks
CanPut_Unbounded(queue) == TRUE

\* q.put(x): blocks while the queue is full
CanPut(queue) == Len(queue) < QCap
QPut(queue, x) == Append(queue, x)

\* while not stop_evt.is_set():
ReaderLoop ==
    /\ rpc = "loop"
    /\ rpc' = IF stop_evt THEN "exit" ELSE "read"
    /\ UNCHANGED << now, nticks, buf, t0, rcur, nreads, nrecv, ser_open, q,
                    stop_evt, cpc, item, closed, mpc, ctlVars, ncmds, logVars,
                    pushed, processed, flipTimes, flipIdx, flipsSince, logcalls,
                    thrVars >>

\* mutant: buf = chunk, which forgets the bytes kept from earlier reads
Accumulate_Replace(b, chunk) == chunk

\* buf += chunk
Accumulate(b, chunk) == b \o chunk

\* chunk = ser.read(256) returned bytes; buf += chunk
ReaderRead(chunk) ==
    /\ rpc = "read" /\ ser_open /\ nreads > 0
    /\ buf' = Accumulate(buf, chunk)
    /\ nrecv' = nrecv + Len(chunk)
    /\ nreads' = nreads - 1
    /\ rpc' = "lines"
    /\ UNCHANGED << now, nticks, t0, rcur, ser_open, q, stop_evt, cpc, item,
                    closed, mpc, ctlVars, ncmds, logVars, pushed, processed,
                    flipTimes, flipIdx, flipsSince, logcalls, thrVars >>

\* the read timed out: if not chunk: continue
ReaderTimeout ==
    /\ rpc = "read" /\ ser_open
    /\ rpc' = "loop"
    /\ UNCHANGED << now, nticks, buf, t0, rcur, nreads, nrecv, ser_open, q,
                    stop_evt, cpc, item, closed, mpc, ctlVars, ncmds, logVars,
                    pushed, processed, flipTimes, flipIdx, flipsSince, logcalls,
                    thrVars >>

\* mutant: the except clause returns instead of breaking out to q.put(None)
AfterReadError_Return == "done"

\* where the reader goes when ser.read raises: except ...: break
AfterReadError == "exit"

\* ser.read raised (always so once the port is closed)
ReaderReadError ==
    /\ rpc = "read"
    /\ rpc' = AfterReadError
    /\ UNCHANGED << now, nticks, buf, t0, rcur, nreads, nrecv, ser_open, q,
                    stop_evt, cpc, item, closed, mpc, ctlVars, ncmds, logVars,
                    pushed, processed, flipTimes, flipIdx, flipsSince, logcalls,
                    thrVars >>

\* mutant: a line that does not match ends the reader's loop
AfterBadLine_Break == "exit"

\* where the reader goes after a line that does not match: continue
AfterBadLine == "lines"

\* while b'\n' in buf: split one line off, parse it, build the item
ReaderLines ==
    /\ rpc = "lines"
    /\ IF ~HasNewline(buf)
         THEN /\ rpc' = "loop"
              /\ UNCHANGED << buf, t0, rcur >>
         ELSE LET sp == SplitLine(buf)
                  m  == ParseLine(CleanLine(sp[1]))
                  o  == IF t0 = None THEN now ELSE t0[1]
              IN  /\ buf' = sp[2]
                  /\ IF m = None
                       THEN /\ rpc' = AfterBadLine
                            /\ UNCHANGED << t0, rcur >>
                       ELSE /\ t0' = << o >>
                            /\ rcur' = << now - o, m[1], m[2] >>
                            /\ rpc' = "put"
    /\ UNCHANGED << now, nticks, nreads, nrecv, ser_open, q, stop_evt, cpc,
                    item, closed, mpc, ctlVars, ncmds, logVars, pushed,
                    processed, flipTimes, flipIdx, flipsSince, logcalls, thrVars >>

\* q.put((t - t0, mA, mV))
ReaderPut ==
    /\ rpc = "put"
    /\ CanPut(q)
    /\ q' = QPut(q, rcur)
    /\ pushed' = Append(pushed, rcur)
    /\ rcur' = None
    /\ rpc' = "lines"
    /\ UNCHANGED << now, nticks, buf, t0, nreads, nrecv, ser_open, stop_evt,
                    cpc, item, closed, mpc, ctlVars, ncmds, logVars, processed,
                    flipTimes, flipIdx, flipsSince, logcalls, thrVars >>

\* q.put(None) after the loop
ReaderExit ==
    /\ rpc = "exit"
    /\ CanPut(q)
    /\ q' = QPut(q, None)
    /\ pushed' = Append(pushed, None)
    /\ rpc' = "done"
    /\ UNCHANGED << now, nticks, buf, t0, rcur, nreads, nrecv, ser_open,
                    stop_evt, cpc, item, closed, mpc, ctlVars, ncmds, logVars,
                    processed, flipTimes, flipIdx, flipsSince, logcalls, thrVars >>

(***************************************************************************)
(* on_timer: one queue item at a time; the reader runs between its steps.  *)
(***************************************************************************)
\* mutant: the newest item is handed out first
QHead_Newest(queue) == queue[Len(queue)]

\* item = q.get_nowait()
QHead(queue) == Head(queue)
QRest(queue) == Tail(queue)

\* FuncAnimation calls on_timer while the figure is open
TimerFire ==
    /\ cpc = "idle" /\ mpc = "show" /\ ~closed
    /\ cpc' = "drain"
    /\ UNCHANGED << now, nticks, readerVars, ser_open, q, stop_evt, item,
                    closed, mpc, ctlVars, ncmds, logVars, pushed, processed,
                    flipTimes, flipIdx, flipsSince, logcalls, thrVars >>

\* mutant: the marker is skipped and the loop goes on draining
AfterMarker_KeepDraining == "drain"

\* where on_timer goes when the item is the marker: plt.close(fig); return
AfterMarker == "idle"

\* one turn of the while True: loop up to tbuf.append
Drain ==
    /\ cpc = "drain"
    /\ IF q = << >>
         THEN /\ cpc' = "idle"                         \* queue.Empty: break
              /\ UNCHANGED << q, item, closed, processed >>
         ELSE /\ q' = QRest(q)
              /\ IF QHead(q) = None
                   THEN /\ closed' = TRUE              \* plt.close(fig); return
                        /\ cpc' = AfterMarker
                        /\ UNCHANGED << item, processed >>
                   ELSE /\ item' = QHead(q)
                        /\ processed' = Append(processed, QHead(q))
                        /\ cpc' = "log"
                        /\ closed' = closed
    /\ UNCHANGED << now, nticks, readerVars, ser_open, stop_evt, mpc, ctlVars,
                    ncmds, logVars, pushed, flipTimes, flipIdx, flipsSince,
                    logcalls, thrVars >>

\* where on_timer continues after data_logger.log_data returns
AfterLog == "flip"

\* mutant: the exception leaves log_data and ends this on_timer call
AfterWriteError_Propagates == "idle"

\* where on_timer continues when the row write raised: log_data's except
\* clause reports it and returns normally
AfterWriteError == AfterLog

Abs(x) == IF x < 0 THEN 0 - x ELSE x

\* mutant: the cooldown test left out
FlipCond_NoCooldown(V) ==
    /\ set_i > 0
    /\ AtThreshold(V)

\* mutant: the set_i > 0.0 test left out
FlipCond_NoSign(V) ==
    /\ AtThreshold(V)
    /\ now - last_flip_time >= FLIP_COOLDOWN

\* (set_i > 0.0) and (V >= V_FLIP_THRESH) and (now - last_flip_time >= FLIP_COOLDOWN)
FlipCond(V) ==
    /\ set_i > 0
    /\ AtThreshold(V)
    /\ now - last_flip_time >= FLIP_COOLDOWN

\* the value the auto flip applies
FlipTarget(i) == 0 - Abs(i)

\* mutant: the sample is logged after its auto-flip check
RowSetPoint_AfterFlip ==
    IF AUTO_FLIP_ENABLE /\ FlipCond(scale_voltage(v_adc_from_mV(item[3])))
      THEN FlipTarget(set_i) ELSE set_i

\* the set_i that on_timer hands to log_data: the one in force at line 311
RowSetPoint == set_i

\* data_logger.log_data(t, I, V, set_i, mA, mV)
LogStep(woks) ==
    /\ cpc = "log"
    /\ \E wok \in woks :
          /\ log_data(item[1],
                      scale_current(v_adc_from_mA(item[2])),
                      scale_voltage(v_adc_from_mV(item[3])),
                      RowSetPoint, item[2], item[3], wok)
          /\ cpc' = IF WriteRaises(wok) THEN AfterWriteError ELSE AfterLog
    /\ UNCHANGED << now, nticks, readerVars, ser_open, q, stop_evt, item,
                    closed, mpc, ctlVars, ncmds, pushed, processed, flipTimes,
                    flipIdx, flipsSince, logcalls, thrVars >>

\* the auto flip of one sample, then back to the head of the while loop
FlipStep ==
    /\ cpc = "flip"
    /\ IF AUTO_FLIP_ENABLE /\ FlipCond(scale_voltage(v_adc_from_mV(item[3])))
         THEN /\ apply_set_current(FlipTarget(set_i), tb_text)
              /\ last_flip_time' = now
              /\ flipTimes' = Append(flipTimes, now)
              /\ flipIdx' = Append(flipIdx, Len(processed))
              /\ flipsSince' = flipsSince + 1
         ELSE UNCHANGED << ctlVars, flipTimes, flipIdx, flipsSince >>
    /\ cpc' = "drain"
    /\ item' = None
    /\ UNCHANGED << now, nticks, readerVars, ser_open, q, stop_evt, closed, mpc,
                    ncmds, logVars, pushed, processed, logcalls, thrVars >>

(***************************************************************************)
(* Manual GUI events; they run on the GUI thread, between on_timer calls.  *)
(***************************************************************************)
GuiReady == cpc = "idle" /\ mpc = "show" /\ ~closed /\ ncmds > 0

\* (history) a manual command that leaves a positive set-point re-arms the count
ManualSet == flipsSince' = IF set_i' # set_i /\ set_i' > 0 THEN 0 ELSE flipsSince

\* the user moves the current slider to val: on_current_slider(val)
SliderChange(val) ==
    /\ GuiReady
    /\ IF slider_event_enabled
         THEN apply_set_current(val, tb_text)
         ELSE UNCHANGED << set_i, tx, wire, slider_event_enabled, tb_text >>
              /\ sI_val' = val
    /\ ManualSet
    /\ ncmds' = ncmds - 1
    /\ UNCHANGED << now, nticks, readerVars, ser_open, q, stop_evt, cpc, item,
                    closed, mpc, last_flip_time, logVars, pushed, processed,
                    flipTimes, flipIdx, logcalls, thrVars >>

\* the user submits text in the box: on_tb(text)
TextSubmit(text) ==
    /\ GuiReady
    /\ IF IsNumber(text)
         THEN apply_set_current(FloatOf(text), text)
         ELSE \* tb.set_val(f"{set_i:.3f}") puts the old value back; the box
              \* changes, so on_tb runs again with that text
              apply_set_current(FloatOf(Fmt3(set_i)), Fmt3(set_i))
    /\ ManualSet
    /\ ncmds' = ncmds - 1
    /\ UNCHANGED << now, nticks, readerVars, ser_open, q, stop_evt, cpc, item,
                    closed, mpc, last_flip_time, logVars, pushed, processed,
                    flipTimes, flipIdx, logcalls, thrVars >>

\* the new set-point of an arrow key
KeyTarget(key, i) ==
    CASE key = "right" -> IF i + 10 > I_MAX THEN I_MAX ELSE i + 10
      [] key = "left"  -> IF i - 10 < I_MIN THEN I_MIN ELSE i - 10
      [] key = "up"    -> IF i + 100 > I_MAX THEN I_MAX ELSE i + 100
      [] key = "down"  -> IF i - 100 < I_MIN THEN I_MIN ELSE i - 100

\* on_key(evt)
KeyPress(key) ==
    /\ GuiReady
    /\ IF key \in { "right", "left", "up", "down" }
         THEN apply_set_current(KeyTarget(key, set_i), tb_text)
         ELSE /\ tx' = IF key = "g" THEN send_cmd(tx, GetFrame) ELSE tx
              /\ wire' = IF key = "g" THEN wire \o Bytes(GetFrame) ELSE wire
              /\ UNCHANGED << set_i, slider_event_enabled, sI_val, tb_text >>
    /\ ManualSet
    /\ ncmds' = ncmds - 1
    /\ UNCHANGED << now, nticks, readerVars, ser_open, q, stop_evt, cpc, item,
                    closed, mpc, last_flip_time, logVars, pushed, processed,
                    flipTimes, flipIdx, logcalls, thrVars >>

\* on_get: the GET button
GetClick ==
    /\ GuiReady
    /\ tx' = send_cmd(tx, GetFrame)
    /\ wire' = wire \o Bytes(GetFrame)
    /\ ncmds' = ncmds - 1
    /\ UNCHANGED << now, nticks, readerVars, ser_open, q, stop_evt, cpc, item,
                    closed, mpc, set_i, last_flip_time, slider_event_enabled,
                    sI_val, tb_text, logVars, pushed, processed, flipTimes,
                    flipIdx, flipsSince, logcalls, thrVars >>

(***************************************************************************)
(* send_set_current and send_cmd, one statement at a time, as a thread t   *)
(* runs them while other threads run them too.                             *)
(***************************************************************************)
\* send_set_current(i): set_i = max(-1.0, min(1.0, float(i_set)))
CallSet(t, i) ==
    /\ thr[t].pc = "idle" /\ ncmds > 0
    /\ set_i' = Clamp(i)
    /\ thr' = [ thr EXCEPT ![t] = [ ThrIdle EXCEPT !.pc = "vdac", !.req = << i >> ] ]
    /\ ManualSet
    /\ ncmds' = ncmds - 1
    /\ UNCHANGED << now, nticks, readerVars, ser_open, q, stop_evt, cpc, item,
                    closed, mpc, last_flip_time, slider_event_enabled, sI_val,
                    tb_text, tx, wire, tx_lock, logVars, pushed, processed,
                    flipTimes, flipIdx, logcalls >>

\* v = current_to_vdac(set_i); the f-string f"SET {v:.3f}\r\n"
ThrVdac(t) ==
    /\ thr[t].pc = "vdac"
    /\ thr' = [ thr EXCEPT ![t].pc = "lock", ![t].frame = SetFrame(set_i) ]
    /\ UNCHANGED << now, nticks, readerVars, ser_open, q, stop_evt, cpc, item,
                    closed, mpc, ctlVars, tx_lock, ncmds, logVars, pushed,
                    processed, flipTimes, flipIdx, flipsSince, logcalls >>

\* send_cmd("GET\r\n")
CallGet(t) ==
    /\ thr[t].pc = "idle" /\ ncmds > 0
    /\ thr' = [ thr EXCEPT ![t] = [ ThrIdle EXCEPT !.pc = "lock", !.frame = GetFrame ] ]
    /\ ncmds' = ncmds - 1
    /\ UNCHANGED << now, nticks, readerVars, ser_open, q, stop_evt, cpc, item,
                    closed, mpc, ctlVars, tx_lock, logVars, pushed, processed,
                    flipTimes, flipIdx, flipsSince, logcalls >>

\* with tx_lock: (enter)
ThrAcquire(t) ==
    /\ thr[t].pc = "lock"
    /\ LockFree(tx_lock)
    /\ tx_lock' = t
    /\ thr' = [ thr EXCEPT ![t].pc = "write" ]
    /\ UNCHANGED << now, nticks, readerVars, ser_open, q, stop_evt, cpc, item,
                    closed, mpc, ctlVars, ncmds, logVars, pushed, processed,
                    flipTimes, flipIdx, flipsSince, logcalls >>

\* ser.write(cmd.encode()): the next piece of the frame goes out
ThrWrite(t) ==
    /\ thr[t].pc = "write"
    /\ LET f    == thr[t].frame
           k    == thr[t].k + 1
           last == k = Len(Bytes(f))
       IN  /\ wire' = Append(wire, Bytes(f)[k])
           /\ tx' = IF last THEN send_cmd(tx, f) ELSE tx
           /\ thr' = [ thr EXCEPT ![t].k = k,
                                  ![t].pc = IF last THEN "unlock" ELSE "write" ]
    /\ UNCHANGED << now, nticks, readerVars, ser_open, q, stop_evt, cpc, item,
                    closed, mpc, set_i, last_flip_time, slider_event_enabled,
                    sI_val, tb_text, tx_lock, ncmds, logVars, pushed, processed,
                    flipTimes, flipIdx, flipsSince, logcalls >>

\* with tx_lock: (leave); send_cmd returns
ThrRelease(t) ==
    /\ thr[t].pc = "unlock"
    /\ tx_lock' = 0
    /\ thr' = [ thr EXCEPT ![t].pc = IF thr[t].req = None THEN "idle" ELSE "ret" ]
    /\ UNCHANGED << now, nticks, readerVars, ser_open, q, stop_evt, cpc, item,
                    closed, mpc, ctlVars, ncmds, logVars, pushed, processed,
                    flipTimes, flipIdx, flipsSince, logcalls >>

\* return set_i
ThrReturn(t) ==
    /\ thr[t].pc = "ret"
    /\ thr' = [ thr EXCEPT ![t].pc = "idle", ![t].ret = << set_i >> ]
    /\ UNCHANGED << now, nticks, readerVars, ser_open, q, stop_evt, cpc, item,
                    closed, mpc, ctlVars, tx_lock, ncmds, logVars, pushed,
                    processed, flipTimes, flipIdx, flipsSince, logcalls >>

(***************************************************************************)
(* main: plt.show() returns when the figure is closed; then the finally.   *)
(***************************************************************************)
UserClose ==
    /\ cpc = "idle" /\ mpc = "show" /\ ~closed
    /\ closed' = TRUE
    /\ UNCHANGED << now, nticks, readerVars, ser_open, q, stop_evt, cpc, item,
                    mpc, ctlVars, ncmds, logVars, pushed, processed, flipTimes,
                    flipIdx, flipsSince, logcalls, thrVars >>

\* stop_evt.set()
MainStop ==
    /\ mpc = "show" /\ closed /\ cpc = "idle"
    /\ stop_evt' = TRUE
    /\ mpc' = "logclose"
    /\ UNCHANGED << now, nticks, readerVars, ser_open, q, cpc, item, closed,
                    ctlVars, ncmds, logVars, pushed, processed, flipTimes,
                    flipIdx, flipsSince, logcalls, thrVars >>

\* data_logger.close()
MainLogClose ==
    /\ mpc = "logclose"
    /\ csv_file' = IF csv_file = "none" THEN "none" ELSE "closed"
    /\ closes' = closes + 1
    /\ mpc' = "serclose"
    /\ UNCHANGED << now, nticks, readerVars, ser_open, q, stop_evt, cpc, item,
                    closed, ctlVars, ncmds, logging_enabled, csv_writer,
                    last_log_time, rows, rowIdx, wfails, opens, open_res,
                    pushed, processed, flipTimes, flipIdx, flipsSince, logcalls,
                    thrVars >>

\* ser.close()
MainSerClose ==
    /\ mpc = "serclose"
    /\ ser_open' = FALSE
    /\ mpc' = "end"
    /\ UNCHANGED << now, nticks, readerVars, q, stop_evt, cpc, item, closed,
                    ctlVars, ncmds, logVars, pushed, processed, flipTimes,
                    flipIdx, flipsSince, logcalls, thrVars >>

(***************************************************************************)
(* The program.                                                            *)
(***************************************************************************)
ReaderNext(chunks) ==
    \/ ReaderLoop
    \/ \E chunk \in chunks : ReaderRead(chunk)
    \/ ReaderTimeout
    \/ ReaderReadError
    \/ ReaderLines
    \/ ReaderPut
    \/ ReaderExit

TimerNext(woks) ==
    \/ TimerFire
    \/ Drain
    \/ LogStep(woks)
    \/ FlipStep

GuiNext(sliders, texts, keys) ==
    \/ \E val \in sliders : SliderChange(val)
    \/ \E text \in texts : TextSubmit(text)
    \/ \E key \in keys : KeyPress(key)
    \/ GetClick

ThrSteps(t) ==
    \/ ThrVdac(t)
    \/ ThrAcquire(t)
    \/ ThrWrite(t)
    \/ ThrRelease(t)
    \/ ThrReturn(t)

MainNext ==
    \/ UserClose
    \/ MainStop
    \/ MainLogClose
    \/ MainSerClose

(***************************************************************************)
(* Spec: acquisition.  The reader thread on a transport that cuts lines    *)
(* anywhere, the queue, on_timer and the shutdown, under every             *)
(* interleaving; the user only watches, and may close the window.          *)
(***************************************************************************)
Init == InitWith(MaxTicks, MaxReads, 0, { "ok" })
Next ==
    \/ \E d \in { 500 } : Tick(d)
    \/ ReaderNext(Chunks)
    \/ TimerNext({ TRUE })
    \/ MainNext
Spec == Init /\ [][Next]_vars

(***************************************************************************)
(* Claims on the acquisition path.                                         *)
(***************************************************************************)
IsSample(x) == x # None
Samples(seq) == SelectSeq(seq, IsSample)
Markers(seq) == { k \in 1..Len(seq) : seq[k] = None }
IsPrefix(a, b) == Len(a) <= Len(b) /\ SubSeq(b, 1, Len(a)) = a

\* C1: the reader pushes the termination marker exactly once when it leaves
\* its loop (stop signal or read error): never before it has left the loop,
\* at most once, as the last item it ever pushes, and it has pushed it by the
\* time it has returned.
C1_MarkerOnce ==
    /\ Cardinality(Markers(pushed)) <= 1
    /\ \A k \in Markers(pushed) : k = Len(pushed)
    /\ (Markers(pushed) # {}) => rpc = "done"
    /\ rpc = "done" => Cardinality(Markers(pushed)) = 1

\* the reader returned after the stop signal, having pushed samples before
C1_Witness ==
    /\ rpc = "done" /\ stop_evt
    /\ Len(pushed) >= 3 /\ pushed[Len(pushed)] = None

\* C2: the samples on_timer has processed are, in order, a prefix of the
\* samples the reader pushed.
C2_Fifo == IsPrefix(processed, Samples(pushed))

\* three samples processed, not all alike, while the reader is still ahead
C2_Witness ==
    /\ Len(processed) >= 3
    /\ processed[1] # processed[2]
    /\ Len(Samples(pushed)) > Len(processed)

C3_Conservation ==
    /\ Len(Samples(pushed)) = Len(processed) + Len(Samples(q))
    /\ Len(q) <= QCap

\* C3: samples pushed = samples processed + samples queued; the queue never
\* holds more than its capacity; and while it is full no push completes and
\* the item being pushed is kept.
C3_NoLoss ==
    /\ []C3_Conservation
    /\ [][ Len(q) = QCap =>
             /\ pushed' = pushed
             /\ rpc \in { "put", "exit" } => (rpc' = rpc /\ rcur' = rcur) ]_vars

\* the queue is full again and the reader blocked in put, after on_timer has
\* taken items out
C3_Witness ==
    /\ Len(q) = QCap /\ rpc = "put" /\ rcur # None
    /\ Len(processed) >= 1

\* on_timer has taken the termination marker out of the queue
MarkerTaken == Markers(pushed) # {} /\ \A k \in 1..Len(q) : q[k] # None

\* C11: when on_timer takes the termination marker it returns at once with the
\* figure closed; from then on nothing is taken from the queue, no sample is
\* processed, logged or checked for auto flip and on_timer is not entered
\* again; and the shutdown that follows calls data_logger.close() exactly
\* once: never more than once, not before plt.show() has returned, and once
\* by the time main has ended.
C11_MarkerStops ==
    /\ [](MarkerTaken => (cpc = "idle" /\ closed))
    /\ [][ MarkerTaken =>
             /\ q' = q /\ processed' = processed /\ item' = item
             /\ rows' = rows /\ flipTimes' = flipTimes /\ tx' = tx
             /\ cpc' = "idle" ]_vars
    /\ [](closes <= 1)
    /\ [](mpc = "show" => closes = 0)
    /\ [](mpc = "end" => closes = 1)

\* the marker was taken after samples had been processed and logged, and main
\* has run its shutdown to the end
C11_Witness ==
    /\ MarkerTaken /\ mpc = "end" /\ closes = 1
    /\ Len(processed) >= 2 /\ rows # << >> /\ csv_file = "closed"

\* the reader cannot complete the queue put it is in
ReaderBlocked == rpc \in { "put", "exit" } /\ ~CanPut(q)

\* C14, as stated: once the stop signal is set the reader terminates whatever
\* the queue holds and whether or not on_timer still runs.  on_timer never
\* runs again after the stop signal (main sets it after the figure has
\* closed), so a reader that is blocked then stays blocked for ever: the
\* claim requires that it never is.
C14_ReaderStops == stop_evt => (rpc = "done" \/ ~ReaderBlocked)

(***************************************************************************)
(* SpecCtl: control.  The whole program with an active user: slider, text  *)
(* box, arrow keys and GET between on_timer calls, on a transport that     *)
(* delivers whole lines at, just below and above the flip threshold.       *)
(***************************************************************************)
InitCtl == InitWith(CtlTicks, CtlReads, CtlCmds, { "ok" })
NextCtl ==
    \/ \E d \in { 1000 } : Tick(d)
    \/ ReaderNext({ ChunkAt, ChunkBelow })
    \/ TimerNext({ TRUE })
    \/ GuiNext({ 800 },
               { << "typed", 2500 >>, << "typed", -5000 >>, << "bad" >> },
               { "up", "down", "g" })
    \/ MainNext
SpecCtl == InitCtl /\ [][NextCtl]_vars

(***************************************************************************)
(* SpecSeq: repeated threshold crossings.  Every sample is at 5.0 V; the   *)
(* user keeps setting +0.8 A with the slider; the clock advances by 0.5 s  *)
(* or 1 s.                                                                 *)
(***************************************************************************)
InitSeq == InitWith(SeqTicks, SeqReads, SeqCmds, { "ok" })
NextSeq ==
    \/ \E d \in { 500, 1000 } : Tick(d)
    \/ ReaderNext({ ChunkHigh })
    \/ TimerNext({ TRUE })
    \/ \E val \in { 800 } : SliderChange(val)
    \/ MainNext
SpecSeq == InitSeq /\ [][NextSeq]_vars

(***************************************************************************)
(* SpecFail: a log file that fails.  Opening it may fail at construction,  *)
(* and any row write may raise; otherwise as SpecSeq, in steps of 0.5 s.   *)
(***************************************************************************)
InitFail == InitWith(FailTicks, FailReads, FailCmds, OpenResults)
NextFail ==
    \/ \E d \in { 500 } : Tick(d)
    \/ ReaderNext({ ChunkHigh })
    \/ TimerNext(BOOLEAN)
    \/ \E val \in { 800 } : SliderChange(val)
    \/ MainNext
SpecFail == InitFail /\ [][NextFail]_vars

(***************************************************************************)
(* SpecLog: the rate limiter alone.  log_data is called directly, with the *)
(* clock as the sample's time, on a logger whose file opened and takes     *)
(* every row.                                                              *)
(***************************************************************************)
LogCall(mA, mV) ==
    /\ Len(logcalls) < LogCalls
    /\ log_data(now, scale_current(v_adc_from_mA(mA)),
                scale_voltage(v_adc_from_mV(mV)), set_i, mA, mV, TRUE)
    /\ logcalls' = Append(logcalls, now)
    /\ UNCHANGED << now, nticks, readerVars, ser_open, q, stop_evt, cpc, item,
                    closed, mpc, ctlVars, thrVars, ncmds, pushed, processed,
                    flipTimes, flipIdx, flipsSince >>

InitLog == InitWith(LogTicks, 0, 0, { "ok" })
NextLog ==
    \/ \E d \in { 30, 50, 70, 100 } : Tick(d)
    \/ LogCall(1, 3300)
SpecLog == InitLog /\ [][NextLog]_vars

(***************************************************************************)
(* SpecFrame: framing.  The transport holds the bytes of LineStream and    *)
(* each read returns as many of the next ones as it likes, from one byte   *)
(* to all that remain; on_timer and the shutdown run as in Spec.           *)
(***************************************************************************)
\* what ser.read(256) may return next
NextChunks == { SubSeq(LineStream, nrecv + 1, nrecv + n) : n \in 1..(Len(LineStream) - nrecv) }

InitFrame == InitWith(FrameTicks, FrameReads, 0, { "ok" })
NextFrame ==
    \/ \E d \in { 500 } : Tick(d)
    \/ ReaderLoop
    \/ \E chunk \in NextChunks : ReaderRead(chunk)
    \/ ReaderTimeout
    \/ ReaderLines
    \/ ReaderPut
    \/ ReaderExit
    \/ TimerNext({ TRUE })
    \/ MainNext
SpecFrame == InitFrame /\ [][NextFrame]_vars

(***************************************************************************)
(* SpecTx: the command path under concurrent callers.  NThr threads call   *)
(* send_set_current(0.8), send_set_current(-0.5) and send_cmd("GET\r\n"),  *)
(* each statement of one interleaved with the statements of the others.    *)
(***************************************************************************)
InitTx == InitWith(0, 0, TxCmds, { "ok" })
NextTx ==
    \E t \in Thr :
        \/ \E i \in { 800, -500 } : CallSet(t, i)
        \/ CallGet(t)
        \/ ThrSteps(t)
SpecTx == InitTx /\ [][NextTx]_vars

(***************************************************************************)
(* SpecSet: send_set_current as a function.  One thread calls it with      *)
(* values below, inside and above the range, each call after the last has  *)
(* returned.                                                               *)
(***************************************************************************)
SetValues == { -5000, -1000, -990, -10, -1, 0, 1, 30, 800, 1000, 2500 }

InitSet == InitWith(0, 0, SetCmds, { "ok" })
NextSet ==
    \/ \E i \in SetValues : CallSet(1, i)
    \/ ThrSteps(1)
SpecSet == InitSet /\ [][NextSet]_vars

(***************************************************************************)
(* Claims on the control path.                                             *)
(***************************************************************************)
\* C4: the set-point always lies in [-1, 1] A.
C4_SetRange == I_MIN <= set_i /\ set_i <= I_MAX

\* an out-of-range request was clamped to +1 A and an auto flip then took the
\* set-point to -1 A
C4_Witness == set_i = I_MIN /\ flipTimes # << >> /\ Len(tx) >= 2

\* on_timer's auto-flip check of the sample in item
FlipCheck == cpc = "flip" /\ cpc' = "drain"

\* the frames written by this step
NewFrames == SubSeq(tx', Len(tx) + 1, Len(tx'))

\* C5: the auto-flip check of a sample reverses the current if and only if
\* auto flip is enabled, set_i > 0, the scaled voltage is at least 4.9 V and
\* the cooldown has passed since last_flip_time; it then commands -|set_i|
\* and sets last_flip_time to now; otherwise it writes no command and leaves
\* set_i and last_flip_time alone.
C5_AutoFlip ==
    [][ FlipCheck =>
          IF /\ AUTO_FLIP_ENABLE
             /\ set_i > 0
             /\ item[3] * 50 >= 161700                  \* mV * (5 / 3.3) >= 4900
             /\ now - last_flip_time >= 1000
            THEN /\ set_i' = 0 - set_i
                 /\ last_flip_time' = now
                 /\ IsPrefix(tx, tx') /\ NewFrames # << >>
                 /\ \A k \in 1..Len(NewFrames) : NewFrames[k] = SetFrame(0 - set_i)
            ELSE /\ tx' = tx
                 /\ set_i' = set_i
                 /\ last_flip_time' = last_flip_time ]_vars

\* a sample exactly at the threshold has just reversed a positive set-point
C5_Witness ==
    /\ flipTimes # << >> /\ cpc = "drain" /\ set_i < 0
    /\ processed[Len(processed)][3] = 3234
    /\ last_flip_time = now

\* C6, as stated: from the initial last_flip_time, with set_i = 0.8 A, a sample
\* of 5.0 V checked at clock 0 flips to -0.8 A; one checked at 0.5 s does
\* nothing; after a manual reset to +0.8 A one checked at 1.2 s flips again.
C6_Sequence ==
    [][ (FlipCheck /\ item[3] = 3300) =>
          /\ (flipTimes = << >> /\ last_flip_time = 0 /\ now = 0 /\ set_i = 800)
                => (set_i' = -800 /\ flipTimes' = << 0 >>)
          /\ (flipTimes = << 0 >> /\ now = 500)
                => (set_i' = set_i /\ flipTimes' = flipTimes /\ tx' = tx)
          /\ (flipTimes = << 0 >> /\ now = 1200 /\ set_i = 800)
                => (set_i' = -800 /\ flipTimes' = << 0, 1200 >>) ]_vars

\* C7: any two auto flips are at least the cooldown apart.
C7_Cooldown ==
    \A j \in 1..Len(flipTimes) : \A k \in 1..(j-1) :
        flipTimes[j] - flipTimes[k] >= FLIP_COOLDOWN

\* two auto flips, with a manual command back to a positive current between
C7_Witness == Len(flipTimes) >= 2

(***************************************************************************)
(* Claims on the logger.                                                   *)
(***************************************************************************)
RowTimes == [ k \in 1..Len(rows) |-> rows[k][1] ]

\* C8, as stated: the first sample offered to a fresh logger is always
\* accepted, and calls at clock times 0, 0.05, 0.12, 0.15, 0.25 s append
\* exactly the rows of the samples at 0, 0.12 and 0.25 s.
C8_RateLimit ==
    /\ Len(logcalls) >= 1 => (rows # << >> /\ rows[1][1] = logcalls[1])
    /\ logcalls = << 0, 50, 120, 150, 250 >> => RowTimes = << 0, 120, 250 >>

\* on_timer's log_data call for the sample in item
LogCheck == cpc = "log" /\ cpc' # cpc

C9_Disabled ==
    open_res # "ok" =>
        ~logging_enabled /\ rows = << >> /\ opens = 1 /\ wfails = 0

\* C9: when opening the log file failed at construction, logging_enabled is
\* false from then on, no row is ever appended, the file is not opened
\* again and no write is attempted; each log_data call returns normally, so
\* the same sample goes on to the auto-flip check.
C9_OpenFailure ==
    /\ []C9_Disabled
    /\ [][ (open_res # "ok" /\ LogCheck) => (cpc' = "flip" /\ item' = item) ]_vars

\* the file failed to open, and samples were still processed and flipped
C9_Witness ==
    /\ open_res # "ok" /\ Len(processed) >= 2 /\ flipTimes # << >>
    /\ set_i = -800

\* C10: when a row write fails on a logger whose file opened, no row is
\* appended for that sample, on_timer goes on to the auto-flip check of the same
\* sample, the logger stays enabled, and a later call that passes the rate
\* limit attempts a write again.
C10_WriteFailure ==
    /\ [](open_res = "ok" => logging_enabled /\ csv_writer)
    /\ [][ LogCheck =>
             /\ wfails' # wfails =>
                  (rows' = rows /\ cpc' = "flip" /\ item' = item)
             /\ (wfails > 0 /\ csv_file = "open" /\ logging_enabled
                   /\ now - last_log_time >= LOG_INTERVAL) =>
                  (Len(rows') = Len(rows) + 1 \/ wfails' = wfails + 1) ]_vars

\* a write failed, and the row of a later sample was written; that sample is
\* now at the auto-flip check
C10_Witness ==
    /\ wfails >= 1 /\ cpc = "flip"
    /\ rows # << >> /\ rows[Len(rows)][1] = item[1] /\ Len(processed) >= 2

(***************************************************************************)
(* Claims on the command path under concurrent callers.                    *)
(***************************************************************************)
\* the threads inside ser.write
Writing == { t \in Thr : thr[t].pc = "write" }

\* w is a run of whole frames ("SET " v CR LF, or "GET" CR LF), followed
\* perhaps by the first pieces of one more
RECURSIVE Framed(_)
Framed(w) ==
    IF w = << >> THEN TRUE
    ELSE IF w[1] = "GET"
      THEN Len(w) = 1 \/ (w[2] = "\r\n" /\ Framed(SubSeq(w, 3, Len(w))))
    ELSE IF w[1] = "SET "
      THEN \/ Len(w) = 1
           \/ /\ w[2] \notin { "GET", "SET ", "\r\n" }
              /\ (Len(w) = 2 \/ (w[3] = "\r\n" /\ Framed(SubSeq(w, 4, Len(w)))))
    ELSE FALSE

\* C12: at most one thread is inside the transport write at any time, and
\* what has gone to the device is a run of whole command frames, the last of
\* them perhaps still being written; when no thread is writing it is exactly
\* the frames sent, each whole and in the order the writes completed.
C12_NoInterleave ==
    /\ Cardinality(Writing) <= 1
    /\ Framed(wire)
    /\ Writing = {} => wire = Wire(tx)

\* one thread is half way through its frame while another waits for the lock
\* with its own frame ready, after a first frame has gone out whole
C12_Witness ==
    /\ \E t \in Thr : thr[t].pc = "write" /\ thr[t].k = 1
    /\ \E t \in Thr : thr[t].pc = "lock"
    /\ Len(tx) >= 1

AllReturned == \A t \in Thr : thr[t].pc = "idle"
SetFrames == SelectSeq(tx, LAMBDA f : f[1] = "SET")

\* C13, as stated: once every concurrent send_set_current call has returned,
\* set_i is the current of the last SET frame written, and each call returned
\* the clamped value of its own request, which is the value its frame encodes.
C13_Atomic ==
    AllReturned =>
        /\ SetFrames # << >> => SetFrames[Len(SetFrames)] = SetFrame(set_i)
        /\ \A t \in Thr : thr[t].ret # None =>
              /\ thr[t].ret = << Clamp(thr[t].req[1]) >>
              /\ thr[t].frame = SetFrame(thr[t].req[1])

\* C15: a call of send_set_current(i) that has returned has set and returned
\* clamp(i, -1, 1) and has written one frame, SET v, where v is
\* (clamp(i) + 1) * 0.5 * 3.3 to the nearest millivolt and lies in 0.000..3.300;
\* 2.5 gives 1.0, -5 gives -1.0, and -1, 0, 1 give 0.000, 1.650, 3.300.
C15_SetCurrent ==
    (thr[1].pc = "idle" /\ thr[1].req # None) =>
        LET i == thr[1].req[1]
            c == IF i > 1000 THEN 1000 ELSE IF i < -1000 THEN -1000 ELSE i
            f == thr[1].frame
        IN  /\ thr[1].ret = << c >> /\ set_i = c
            /\ Len(tx) = SetCmds - ncmds /\ tx[Len(tx)] = f
            /\ Len(f) = 2 /\ f[1] = "SET"
            /\ 0 <= f[2] /\ f[2] <= 3300
            /\ 100 * f[2] - 50 <= (c + 1000) * 165
            /\ (c + 1000) * 165 <= 100 * f[2] + 50
            /\ (i = 2500 => c = 1000) /\ (i = -5000 => c = -1000)
            /\ (i = -1000 => f[2] = 0) /\ (i = 0 => f[2] = 1650)
            /\ (i = 1000 => f[2] = 3300)

\* send_set_current(-5) and then send_set_current(2.5) have returned
C15_Witness ==
    /\ thr[1].pc = "idle" /\ thr[1].req = << 2500 >> /\ thr[1].ret = << 1000 >>
    /\ tx = << << "SET", 0 >>, << "SET", 3300 >> >>

(***************************************************************************)
(* Claims on the auto flip and its logging.                                *)
(***************************************************************************)
\* C16: between two manual commands that set a positive current there is at
\* most one auto flip, however long the voltage stays high and however much
\* time passes.
C16_OneFlip == flipsSince <= 1

\* after an auto flip, a later sample at 5.0 V has been checked once the
\* cooldown had passed, and no second flip has happened
C16_Witness ==
    /\ flipsSince = 1 /\ Len(flipIdx) = 1 /\ set_i < 0
    /\ Len(processed) > flipIdx[1] /\ cpc = "drain"
    /\ now - last_flip_time >= FLIP_COOLDOWN

\* C19, as stated: a step in which apply_set_current is called (slider, text
\* box, arrow key or auto flip) writes exactly one SET frame and leaves
\* slider_event_enabled true.
C19_OneFrame ==
    [][ (tx' # tx /\ NewFrames # << >> /\ NewFrames[1][1] = "SET") =>
          (Len(NewFrames) = 1 /\ slider_event_enabled') ]_vars

\* C20: the row written for the sample that fires an auto flip carries the
\* positive set-point in force before the flip, and a row that carries a
\* flipped (negative) set-point is the row of a later sample than the one that
\* fired the flip.
C20_LogBeforeFlip ==
    /\ \A f \in 1..Len(flipIdx) : \A r \in 1..Len(rowIdx) :
          rowIdx[r] = flipIdx[f] => rows[r][4] > 0
    /\ \A r \in 1..Len(rowIdx) :
          rows[r][4] < 0 => \E f \in 1..Len(flipIdx) : flipIdx[f] < rowIdx[r]

\* the flipping sample's row shows +0.8 A and the next sample's row -0.8 A
C20_Witness ==
    /\ Len(flipIdx) = 1 /\ Len(rows) = 2
    /\ rowIdx[1] = flipIdx[1] /\ rows[1][4] = 800
    /\ rowIdx[2] > flipIdx[1] /\ rows[2][4] = -800

(***************************************************************************)
(* Claims on the framing.                                                  *)
(***************************************************************************)
\* the (raw_current, raw_voltage) pairs of the complete lines of a byte
\* stream: the whole stream split at its newlines, each line parsed in order
RECURSIVE ParseAll(_)
ParseAll(b) ==
    IF ~HasNewline(b) THEN << >>
    ELSE LET sp == SplitLine(b)
             m  == ParseLine(CleanLine(sp[1]))
         IN  (IF m = None THEN << >> ELSE << m >>) \o ParseAll(sp[2])

\* the bytes after the last newline
RECURSIVE Remainder(_)
Remainder(b) == IF ~HasNewline(b) THEN b ELSE Remainder(SplitLine(b)[2])

Received == SubSeq(LineStream, 1, nrecv)
Pair(x) == << x[2], x[3] >>
PushedPairs ==
    [ k \in 1..Len(Samples(pushed)) |-> Pair(Samples(pushed)[k]) ] \o
    (IF rpc = "put" THEN << Pair(rcur) >> ELSE << >>)

\* the reader is in the middle of the lines of the chunk it has just read
InLines == rpc \in { "lines", "put" }

\* the reader's next step takes a complete line that does not match
BadLineNext ==
    /\ rpc = "lines" /\ HasNewline(buf)
    /\ ParseLine(CleanLine(SplitLine(buf)[1])) = None

\* C17: taking a complete line that does not match pushes nothing, leaves t0
\* alone, and the reader goes on with the lines that follow; the reader leaves
\* its loop only on the stop signal, and the first sample it pushes is at
\* relative time 0, whatever was discarded before it.
C17_BadLine ==
    /\ [][ (BadLineNext /\ buf' # buf) =>
             /\ pushed' = pushed /\ q' = q /\ t0' = t0 /\ rcur' = rcur
             /\ rpc' = "lines" /\ buf' = SplitLine(buf)[2] ]_vars
    /\ [](rpc \in { "exit", "done" } => stop_evt)
    /\ [](Samples(pushed) # << >> => Samples(pushed)[1][1] = 0)
    /\ [](t0 = None => Samples(pushed) = << >>)

\* two lines that do not match were discarded, the first before the clock
\* moved, and both lines that match were pushed, the first of them after it
C17_Witness ==
    /\ Len(Samples(pushed)) = 2 /\ t0 = << 500 >>
    /\ Samples(pushed)[1] = << 0, -4, 3233 >>
    /\ Samples(pushed)[2] = << 0, 7, 3234 >>

\* C18: the pairs pushed are, in order, those of the complete lines of the
\* bytes received so far, however the reads cut them: a prefix of them while
\* the reader is working through a chunk, all of them otherwise; and the
\* bytes after the last newline stay in buf and give no sample.
C18_Chunking ==
    /\ IsPrefix(PushedPairs, ParseAll(Received))
    /\ ~InLines => PushedPairs = ParseAll(Received)
    /\ ~InLines => buf = Remainder(Received)

\* the whole stream has been received in so many reads that one of them
\* ended inside a line, and every sample of it was pushed
C18_Witness ==
    /\ nrecv = Len(LineStream) /\ FrameReads - nreads >= 7
    /\ ~InLines /\ buf = << "1", "," >>
    /\ PushedPairs = << << -4, 3233 >>, << 7, 3234 >> >>

====
